---- MODULE Spec2Model ----
(***************************************************************************)
(* The Template Fill Workflow of src/src/App.tsx: the React component App  *)
(* with its seven state cells, its event handlers (onDrop, uploadTemplate, *)
(* generatePDF, the field inputs' onChange, the download link's onClick)   *)
(* and the conditions under which the rendered controls are offered.       *)
(*                                                                         *)
(* An async handler is three actions: the synchronous part up to its await *)
(* of fetch (the click), the continuation of that await, and the           *)
(* continuation of the await of response.json().  The request that is in   *)
(* flight, with the values the handler captured when it was called, is the *)
(* variable pending.  React renders after every event, so each handler     *)
(* reads the state of the latest render; when rendering throws, React      *)
(* unmounts the component and none of its controls is there any more.      *)
(***************************************************************************)
EXTENDS Integers, Sequences, FiniteSets, TLC

\* Longest placeholder list the template service returns in the model.
MaxLen == 2

\* ------------------------------------------------------------------ values

\* useState<File | null>(null): the value null.
Null == "<null>"

\* The files a pick can yield (identified by their display names).
Files == {"invoice.pdf", "letter.pdf"}

\* JSON values that occur as elements of data.placeholders.  text is the
\* string JavaScript makes of the value when it is used as a property key.
Str(s) == [type |-> "string", text |-> s]
Num(s) == [type |-> "number", text |-> s]
Obj(s) == [type |-> "object", text |-> s]
\* In place of the string of an object that has none ({"toString": null}):
\* turning it into a string or a property key throws a TypeError.
NoString == "<TypeError>"
\* The elements: plain names, and four that are out of the ordinary: a number,
\* the name that an object made by {} inherits an accessor for, the object {}
\* and an object that cannot be turned into a string.
PlainNames == {Str("name"), Str("amount")}
OddElems == {Num("7"), Str("__proto__"), Obj("[object Object]"), Obj(NoString)}
Elems == PlainNames \cup OddElems

\* The strings a user types into a field input (e.target.value).
Values == {"", "Alice", "100"}

\* data.filePath of an upload response; "" stands for a missing or empty one.
FilePaths == {"", "/tmp/t1"}

\* data.downloadPath of a generate response; "" stands for a missing one.
DownloadPaths == {"", "/out/d1.pdf", "/out/d2.pdf"}

UploadErrorMessage == "Failed to upload template. Please try again."
GenerateErrorMessage == "Failed to generate PDF. Please try again."

RECURSIVE SeqsUpTo(_, _)
SeqsUpTo(S, n) ==
  IF n = 0 THEN {<<>>}
  ELSE LET shorter == SeqsUpTo(S, n - 1)
       IN  shorter \cup {Append(s, e) : s \in {t \in shorter : Len(t) = n - 1}, e \in S}

\* The lists the template service returns: up to the longest, of no more than
\* two different elements (repeated or not, in any order), at most one
\* occurrence of which is not a plain name.
Lists ==
  {l \in UNION {SeqsUpTo({a, b}, MaxLen) : a \in PlainNames, b \in Elems} :
     Cardinality({j \in 1..Len(l) : l[j] \in OddElems}) <= 1}

\* What data.placeholders can be: an array, another JSON value, or missing.
ArrayValue(items) == [type |-> "array", items |-> items, text |-> ""]
NonArrayValues == {[type |-> "string", items |-> <<>>, text |-> "not-a-list"],
                   [type |-> "undefined", items |-> <<>>, text |-> ""]}
PlaceholderValues == {ArrayValue(l) : l \in Lists} \cup NonArrayValues

\* How the await of fetch ends: fetch rejects (network failure), or it
\* resolves with a response whose ok flag is false or true.
Rejected == [kind |-> "rejected", ok |-> FALSE]
NotOk == [kind |-> "response", ok |-> FALSE]
OkResponse == [kind |-> "response", ok |-> TRUE]
Responses == {Rejected, NotOk, OkResponse}

\* How the await of response.json() ends: with the body as data, or not
\* (json is false when response.json() rejects or yields null, so that reading
\* a field of data throws).
NoBody == [filePath |-> "", placeholders |-> ArrayValue(<<>>), downloadPath |-> ""]
NoData == [json |-> FALSE, data |-> NoBody]
Ok(data) == [json |-> TRUE, data |-> data]
UploadBodies == {[filePath |-> p, placeholders |-> v, downloadPath |-> ""] :
                   p \in FilePaths, v \in PlaceholderValues}
GenerateBodies == {[filePath |-> "", placeholders |-> ArrayValue(<<>>), downloadPath |-> d] :
                     d \in DownloadPaths}
UploadOutcomes == {NoData} \cup {Ok(b) : b \in UploadBodies}
GenerateOutcomes == {NoData} \cup {Ok(b) : b \in GenerateBodies}

\* ------------------------------------------------------------------- state

VARIABLES file, placeholders, fields, fileLocation, downloadLink, isLoading,
          error, pending, scenario

vars == <<file, placeholders, fields, fileLocation, downloadLink, isLoading,
          error, pending, scenario>>

\* A JavaScript object is the sequence of its own properties, in the order in
\* which Object.values, the spread and JSON.stringify go through them: the
\* integer-like keys in ascending order first, then the other keys in the
\* order in which they were created.
Property(k, v) == [key |-> k, value |-> v]
OwnKeys(obj) == {obj[j].key : j \in 1..Len(obj)}

\* useState<Fields>({}): the object with no own property.
EmptyFields == <<>>

\* The two requests, each with what the handler put into it when it was called
\* and with what the handler awaits: first fetch, then response.json().
UploadRequest(f) ==
  [op |-> "upload", awaits |-> "fetch", file |-> f, filePath |-> "", data |-> EmptyFields]
GenerateRequest(p, d) ==
  [op |-> "generate", awaits |-> "fetch", file |-> Null, filePath |-> p, data |-> d]

\* ----------------------------------------------------------------- helpers

\* JavaScript's !v for a string v.
Falsy(v) == v = ""

\* A variant that checks only that the value is there (data.placeholders || []),
\* and takes any value that is there for the list.
PlaceholdersOrEmpty(v) ==
  IF v.type = "undefined" THEN <<>>
  ELSE IF v.type = "array" THEN v.items ELSE <<Str(v.text)>>

\* Array.isArray(data.placeholders) ? data.placeholders : []
PlaceholdersArray(v) == IF v.type = "array" THEN v.items ELSE <<>>

\* Whether the element can be turned into a property key, and the key it is
\* turned into when it can.
CanBeKey(e) == ~(e.type = "object" /\ e.text = NoString)
PropertyKey(e) == e.text

\* The integer-like keys (array indices): the decimal numerals without a
\* leading zero, from "0" to "4294967294".  Of two of them the smaller number
\* is the shorter numeral or, at equal length, the one with the smaller digit
\* where they first differ.
DigitChars == {"0", "1", "2", "3", "4", "5", "6", "7", "8", "9"}
DigitValue == [c \in DigitChars |-> CHOOSE d \in 0..9 : ToString(d) = c]
CharAt(key, i) == SubSeq(key, i, i)
IndexLess(a, b) ==
  \/ Len(a) < Len(b)
  \/ /\ Len(a) = Len(b)
     /\ \E i \in 1..Len(a) :
          /\ SubSeq(a, 1, i - 1) = SubSeq(b, 1, i - 1)
          /\ DigitValue[CharAt(a, i)] < DigitValue[CharAt(b, i)]
CanonicalIndex(key) ==
  /\ Len(key) > 0
  /\ \A i \in 1..Len(key) : CharAt(key, i) \in DigitChars
  /\ (Len(key) = 1 \/ CharAt(key, 1) # "0")
  /\ ~IndexLess("4294967294", key)

\* The same answer, read for the keys of the lists' elements from a table
\* that is worked out once.
ElemKeys == {PropertyKey(e) : e \in Elems}
ElemIndexKeys == {k \in ElemKeys : CanonicalIndex(k)}
IsArrayIndex(key) ==
  IF key \in ElemKeys THEN key \in ElemIndexKeys ELSE CanonicalIndex(key)

\* Where a new own property with this key goes in the property order.
Position(obj, key) ==
  IF ~IsArrayIndex(key) THEN Len(obj) + 1
  ELSE 1 + Cardinality({j \in 1..Len(obj) :
                          IsArrayIndex(obj[j].key) /\ IndexLess(obj[j].key, key)})

\* Defining an own property: an existing one keeps its place and gets the
\* value, a new one is created.  This is what a property of an object literal
\* ({...fields}, {[placeholder]: value}) does, for every key.
CreateDataProperty(obj, key, v) ==
  IF key \in OwnKeys(obj)
  THEN [j \in 1..Len(obj) |-> IF obj[j].key = key THEN Property(key, v) ELSE obj[j]]
  ELSE LET p == Position(obj, key)
       IN  SubSeq(obj, 1, p - 1) \o <<Property(key, v)>> \o SubSeq(obj, p, Len(obj))

\* A variant of Assign that writes an object with the one key only.
AssignAlone(acc, key, v) == <<Property(key, v)>>

\* acc[key] = v on an object made by {}: an assignment goes through the
\* prototype chain, and for the key "__proto__" it finds the setter that
\* Object.prototype has for it, which ignores a value that is a string and
\* creates no own property.
Assign(acc, key, v) ==
  IF key = "__proto__" /\ key \notin OwnKeys(acc)
  THEN acc
  ELSE CreateDataProperty(acc, key, v)

\* {...obj} written into target: every own property of obj is defined, in order.
RECURSIVE Spread(_, _)
Spread(obj, target) ==
  IF obj = <<>> THEN target
  ELSE Spread(Tail(obj), CreateDataProperty(target, Head(obj).key, Head(obj).value))

\* Whether the reduce throws: acc[key] = "" throws a TypeError at the first
\* element that cannot be turned into a property key.
ReduceThrows(arr) == \E j \in 1..Len(arr) : ~CanBeKey(arr[j])

\* placeholdersArray.reduce((acc, key) => { acc[key] = ""; return acc }, {}),
\* for an array at no element of which it throws.
RECURSIVE Reduce(_, _)
Reduce(arr, acc) ==
  IF arr = <<>> THEN acc
  ELSE Reduce(Tail(arr), Assign(acc, PropertyKey(Head(arr)), ""))

NewFields(arr) == Reduce(arr, EmptyFields)

\* Object.values(fields): the values of the own properties, in property order.
ObjectValues(obj) == [j \in 1..Len(obj) |-> obj[j].value]

\* A variant that looks at the first value only.
FirstFalsy(values) == values # <<>> /\ Falsy(Head(values))

\* values.some((v) => !v)
RECURSIVE SomeFalsy(_)
SomeFalsy(values) ==
  IF values = <<>> THEN FALSE
  ELSE Falsy(Head(values)) \/ SomeFalsy(Tail(values))

HasUnfilledField == SomeFalsy(ObjectValues(fields))

\* --------------------------------------------------- the rendered controls

\* Whether rendering the label and the input of a placeholder throws: an
\* object is no valid child of the label ({key}), and one that cannot be
\* turned into a string is no valid key of the list item (key={key}) either.
RenderThrows(e) == e.type = "object"

\* The component is on the page: rendering it with the current state does not
\* throw.  After a render that throws nothing of the component is left, so no
\* handler of a control can be called.
Rendered == \A j \in 1..Len(placeholders) : ~RenderThrows(placeholders[j])

\* A variant without the check of file.
UploadButtonEnabledWithoutFile == ~isLoading

\* A variant without the check of isLoading.
UploadButtonEnabledWhileLoading == ~(file = Null)

\* <button disabled={!file || isLoading} onClick={uploadTemplate}>
UploadButtonEnabled == ~(file = Null \/ isLoading)

\* {placeholders.length > 0 && ...}: the field inputs, the Generate button
\* and the download link are rendered only under this condition.
PlaceholderSectionsRendered == Len(placeholders) > 0

\* A variant without the check of the field values.
GenerateButtonDisabledIgnoringFields == Falsy(fileLocation) \/ isLoading

\* <button disabled={!fileLocation || isLoading ||
\*                   Object.values(fields).some((v) => !v)} onClick={generatePDF}>
GenerateButtonDisabled == Falsy(fileLocation) \/ isLoading \/ HasUnfilledField

GenerateButtonEnabled == PlaceholderSectionsRendered /\ ~GenerateButtonDisabled

\* {downloadLink && <a href={downloadLink} onClick=...>}
DownloadLinkRendered == PlaceholderSectionsRendered /\ ~Falsy(downloadLink)

\* ---------------------------------------------------------- observed events

\* The events the component sees, and the runs of them that the properties
\* below speak about.  scenario is the run of events since the component was
\* mounted, kept whole for as long as it is the beginning of one of these
\* runs and cut down to its last event from then on.
Event(op, s, v, ph) == [op |-> op, s |-> s, v |-> v, ph |-> ph]
NoList == ArrayValue(<<>>)
Select(f) == Event("select", f, "", NoList)
ClickedUpload == Event("uploadClick", "", "", NoList)
UploadOk(p, ph) == Event("uploadOk", p, "", ph)
UploadFailed == Event("uploadFailed", "", "", NoList)
Edit(k, v) == Event("edit", k, v, NoList)
ClickedGenerate == Event("generateClick", "", "", NoList)
GenerateOk(d) == Event("generateOk", d, "", NoList)
GenerateFailed == Event("generateFailed", "", "", NoList)
Download == Event("download", "", "", NoList)
Mounted == Event("mounted", "", "", NoList)
Cut == Event("cut", "", "", NoList)

FirstUpload ==
  << Select("invoice.pdf"), ClickedUpload,
     UploadOk("/tmp/t1", ArrayValue(<<Str("name"), Str("amount")>>)) >>
Filled == FirstUpload \o << Edit("name", "Alice"), Edit("amount", "100") >>
Generated == Filled \o << ClickedGenerate, GenerateOk("/out/d1.pdf") >>
EndToEnd == Generated \o << Download >>
ReEmptied == Filled \o << Edit("name", "") >>
Regenerated == Generated \o << ClickedGenerate, GenerateOk("/out/d2.pdf") >>
NotAList ==
  << Select("invoice.pdf"), ClickedUpload,
     UploadOk("/tmp/t1", [type |-> "string", items |-> <<>>, text |-> "not-a-list"]) >>
Scenarios == {EndToEnd, ReEmptied, Regenerated, NotAList}
Beginnings == UNION {{SubSeq(s, 1, n) : n \in 0..Len(s)} : s \in Scenarios}
IsCut == scenario # <<>> /\ scenario[1] = Cut
Observe(ev) ==
  IF ~IsCut /\ Append(scenario, ev) \in Beginnings THEN Append(scenario, ev) ELSE <<Cut, ev>>
LastEvent == IF scenario = <<>> THEN Mounted ELSE scenario[Len(scenario)]

\* --------------------------------------------------------------- handlers

RemoveAt(s, i) == SubSeq(s, 1, i - 1) \o SubSeq(s, i + 1, Len(s))

Init ==
  /\ file = Null
  /\ placeholders = <<>>
  /\ fields = EmptyFields
  /\ fileLocation = ""
  /\ downloadLink = ""
  /\ isLoading = FALSE
  /\ error = ""
  /\ pending = <<>>
  /\ scenario = <<>>

\* A variant of onDrop without setError("").
OnDropKeepingError(acceptedFiles) ==
  /\ Rendered
  /\ IF Len(acceptedFiles) > 0
     THEN /\ file' = acceptedFiles[1]
          /\ scenario' = Observe(Select(acceptedFiles[1]))
     ELSE UNCHANGED <<file, scenario>>
  /\ UNCHANGED <<placeholders, fields, fileLocation, downloadLink, isLoading, pending, error>>

\* onDrop(acceptedFiles); the dropzone accepts at most one file per pick.
OnDrop(acceptedFiles) ==
  /\ Rendered
  /\ IF Len(acceptedFiles) > 0
     THEN /\ file' = acceptedFiles[1]
          /\ error' = ""
          /\ scenario' = Observe(Select(acceptedFiles[1]))
     ELSE UNCHANGED <<file, error, scenario>>
  /\ UNCHANGED <<placeholders, fields, fileLocation, downloadLink, isLoading, pending>>

\* A variant of uploadTemplate's beginning without setError("").
UploadTemplateKeepingError ==
  IF file = Null
  THEN UNCHANGED vars
  ELSE /\ isLoading' = TRUE
       /\ pending' = Append(pending, UploadRequest(file))
       /\ scenario' = Observe(ClickedUpload)
       /\ UNCHANGED <<file, placeholders, fields, fileLocation, downloadLink, error>>

\* uploadTemplate, up to its await of fetch.
UploadTemplate ==
  IF file = Null
  THEN UNCHANGED vars
  ELSE /\ isLoading' = TRUE
       /\ error' = ""
       /\ pending' = Append(pending, UploadRequest(file))
       /\ scenario' = Observe(ClickedUpload)
       /\ UNCHANGED <<file, placeholders, fields, fileLocation, downloadLink>>

UploadClick == Rendered /\ UploadButtonEnabled /\ UploadTemplate

\* Whether the handler goes on after await fetch: fetch resolved and
\* response.ok is set.
ResponseOk(response) == response.kind = "response" /\ response.ok

\* Whether the body is read: response.json() resolves with data of which a
\* field can be read.
BodyRead(outcome) == outcome.json

\* Whether uploadTemplate's try block runs to its end: the body is read and
\* the reduce does not throw.
UploadSucceeds(outcome) ==
  BodyRead(outcome) /\ ~ReduceThrows(PlaceholdersArray(outcome.data.placeholders))

\* Whether generatePDF's try block runs to its end: the body is read
\* (setDownloadLink, the one statement after it, does not throw).
GenerateSucceeds(outcome) == BodyRead(outcome)

\* uploadTemplate's try block after data is read: setFileLocation and
\* setPlaceholders, then the reduce and, unless the reduce throws, setFields.
UploadTry(data) ==
  LET placeholdersArray == PlaceholdersArray(data.placeholders)
  IN  /\ fileLocation' = data.filePath
      /\ placeholders' = placeholdersArray
      /\ fields' = IF ReduceThrows(placeholdersArray)
                   THEN fields
                   ELSE NewFields(placeholdersArray)

\* uploadTemplate's catch block.
UploadCatch == error' = UploadErrorMessage

\* A variant that clears isLoading at the end of the try block only.
UploadFinallyInTry == isLoading' = (error' # "")

\* uploadTemplate's finally block.
UploadFinally == isLoading' = FALSE

\* uploadTemplate from await fetch to await response.json(), for the upload
\* request pending[i]: with a response that is ok the handler goes back to the
\* event loop to await the body, otherwise it runs catch and finally.
UploadResponse(i, response) ==
  /\ i \in 1..Len(pending)
  /\ pending[i].op = "upload"
  /\ pending[i].awaits = "fetch"
  /\ IF ResponseOk(response)
     THEN /\ pending' = [pending EXCEPT ![i].awaits = "json"]
          /\ UNCHANGED <<fileLocation, placeholders, fields, error, isLoading, scenario>>
     ELSE /\ pending' = RemoveAt(pending, i)
          /\ UNCHANGED <<fileLocation, placeholders, fields>>
          /\ UploadCatch
          /\ scenario' = Observe(UploadFailed)
          /\ UploadFinally
  /\ UNCHANGED <<file, downloadLink>>

\* uploadTemplate from await response.json() on, for the upload request
\* pending[i].  It ends in one of three ways: the body is not read and catch
\* runs before any setter; the body is read, the reduce throws and catch runs
\* after setFileLocation and setPlaceholders; or the try block runs to its end.
\* The setters of one continuation take effect together, in one render.
UploadResolve(i, outcome) ==
  /\ i \in 1..Len(pending)
  /\ pending[i].op = "upload"
  /\ pending[i].awaits = "json"
  /\ pending' = RemoveAt(pending, i)
  /\ IF BodyRead(outcome)
     THEN UploadTry(outcome.data)
     ELSE UNCHANGED <<fileLocation, placeholders, fields>>
  /\ IF UploadSucceeds(outcome)
     THEN /\ UNCHANGED error
          /\ scenario' = Observe(UploadOk(outcome.data.filePath, outcome.data.placeholders))
     ELSE /\ UploadCatch
          /\ scenario' = Observe(UploadFailed)
  /\ UploadFinally
  /\ UNCHANGED <<file, downloadLink>>

\* onChange of the input rendered for placeholders[i]:
\* setFields({ ...fields, [placeholder]: e.target.value }).
OnChange(i, value) ==
  /\ Rendered
  /\ PlaceholderSectionsRendered
  /\ i \in 1..Len(placeholders)
  /\ fields' = CreateDataProperty(Spread(fields, EmptyFields),
                                   PropertyKey(placeholders[i]), value)
  /\ scenario' = Observe(Edit(PropertyKey(placeholders[i]), value))
  /\ UNCHANGED <<file, placeholders, fileLocation, downloadLink, isLoading, error, pending>>

\* generatePDF, up to its await of fetch.
GeneratePDF ==
  IF Falsy(fileLocation)
  THEN UNCHANGED vars
  ELSE /\ isLoading' = TRUE
       /\ error' = ""
       /\ pending' = Append(pending, GenerateRequest(fileLocation, fields))
       /\ scenario' = Observe(ClickedGenerate)
       /\ UNCHANGED <<file, placeholders, fields, fileLocation, downloadLink>>

GenerateClick == Rendered /\ GenerateButtonEnabled /\ GeneratePDF

\* A variant that keeps a download link that is already there.
GenerateTryKeepingLink(data) ==
  /\ downloadLink' = IF Falsy(downloadLink) THEN data.downloadPath ELSE downloadLink
  /\ UNCHANGED error

\* generatePDF's try block after data is read.
GenerateTry(data) ==
  /\ downloadLink' = data.downloadPath
  /\ UNCHANGED error

\* A variant that drops the download link when the generation fails.
GenerateCatchDroppingLink ==
  /\ error' = GenerateErrorMessage
  /\ downloadLink' = ""

\* generatePDF's catch block.
GenerateCatch ==
  /\ error' = GenerateErrorMessage
  /\ UNCHANGED downloadLink

\* generatePDF's finally block.
GenerateFinally == isLoading' = FALSE

\* generatePDF from await fetch to await response.json(), for the generate
\* request pending[i].
GenerateResponse(i, response) ==
  /\ i \in 1..Len(pending)
  /\ pending[i].op = "generate"
  /\ pending[i].awaits = "fetch"
  /\ IF ResponseOk(response)
     THEN /\ pending' = [pending EXCEPT ![i].awaits = "json"]
          /\ UNCHANGED <<downloadLink, error, isLoading, scenario>>
     ELSE /\ pending' = RemoveAt(pending, i)
          /\ GenerateCatch
          /\ scenario' = Observe(GenerateFailed)
          /\ GenerateFinally
  /\ UNCHANGED <<file, placeholders, fields, fileLocation>>

\* generatePDF from await response.json() on, for the generate request
\* pending[i].
GenerateResolve(i, outcome) ==
  /\ i \in 1..Len(pending)
  /\ pending[i].op = "generate"
  /\ pending[i].awaits = "json"
  /\ pending' = RemoveAt(pending, i)
  /\ IF GenerateSucceeds(outcome)
     THEN /\ GenerateTry(outcome.data)
          /\ scenario' = Observe(GenerateOk(outcome.data.downloadPath))
     ELSE /\ GenerateCatch
          /\ scenario' = Observe(GenerateFailed)
  /\ GenerateFinally
  /\ UNCHANGED <<file, placeholders, fields, fileLocation>>

\* onClick of the download link.
DownloadClick ==
  /\ Rendered
  /\ DownloadLinkRendered
  /\ downloadLink' = ""
  /\ scenario' = Observe(Download)
  /\ UNCHANGED <<file, placeholders, fields, fileLocation, isLoading, error, pending>>

Next ==
  \/ \E acceptedFiles \in SeqsUpTo(Files, 1) : OnDrop(acceptedFiles)
  \/ UploadClick
  \/ \E i \in 1..Len(pending), response \in Responses : UploadResponse(i, response)
  \/ \E i \in 1..Len(pending), outcome \in UploadOutcomes : UploadResolve(i, outcome)
  \/ \E i \in 1..Len(placeholders), value \in Values : OnChange(i, value)
  \/ GenerateClick
  \/ \E i \in 1..Len(pending), response \in Responses : GenerateResponse(i, response)
  \/ \E i \in 1..Len(pending), outcome \in GenerateOutcomes : GenerateResolve(i, outcome)
  \/ DownloadClick

Spec == Init /\ [][Next]_vars

\* ------------------------------------------------------------- properties

\* The vocabulary of the specification, in terms of the component's state.
TemplateSessionExists == fileLocation # ""
IsComplete == \A j \in 1..Len(fields) : fields[j].value # ""
AllStrings(list) == \A j \in 1..Len(list) : list[j].type = "string"
Names(list) == {list[j].text : j \in 1..Len(list)}

\* The whole state of the component.
State(f, ph, fl, loc, dl, busy, err, reqs) ==
  /\ file = f
  /\ placeholders = ph
  /\ fields = fl
  /\ fileLocation = loc
  /\ downloadLink = dl
  /\ isLoading = busy
  /\ error = err
  /\ pending = reqs

\* C1: when an upload request has resolved successfully with a list L of
\* placeholder names, the placeholder list is L (same order), the server
\* reference is the returned one, and the field map is the map from exactly the
\* names of L to the empty string, whatever the state before held.
C1_UploadSuccessReplacesSession ==
  (/\ LastEvent.op = "uploadOk"
   /\ LastEvent.ph.type = "array"
   /\ AllStrings(LastEvent.ph.items))
  => /\ placeholders = LastEvent.ph.items
     /\ fileLocation = LastEvent.s
     /\ OwnKeys(fields) = Names(LastEvent.ph.items)
     /\ \A j \in 1..Len(fields) : fields[j].value = ""

\* C2: when an upload request fails (the handler's catch block runs: fetch
\* rejects, the response is not ok, its body cannot be read, or the try block
\* throws later), the server reference, the placeholder list and the field
\* map are what they were just before, and the upload error is set.
C2_UploadFailureKeepsSession ==
  [][LastEvent'.op = "uploadFailed"
     => /\ fileLocation' = fileLocation
        /\ placeholders' = placeholders
        /\ fields' = fields
        /\ error' = UploadErrorMessage]_vars

C4_CompleteIffNoEmptyValue ==
  /\ ~HasUnfilledField <=> IsComplete
  /\ (LastEvent.op = "edit" /\ LastEvent.v = "") => HasUnfilledField

\* C4's case: both fields were filled and "name" was emptied again.
C4_Witness ==
  /\ scenario = ReEmptied
  /\ fields = <<Property("name", ""), Property("amount", "100")>>
  /\ HasUnfilledField

\* C5: when a generate request resolves successfully with reference r the
\* download link becomes r, whatever it was; the download click makes it
\* absent; and once absent it stays so until a generate request resolves
\* successfully.
C5_ResultSetAndConsumed ==
  [][/\ LastEvent'.op = "generateOk" => downloadLink' = LastEvent'.s
     /\ LastEvent'.op = "download" => downloadLink' = ""
     /\ (downloadLink = "" /\ downloadLink' # "") => LastEvent'.op = "generateOk"]_vars

\* C5's case: a second generate has overwritten the result of the first.
C5_Witness ==
  /\ scenario = Regenerated
  /\ downloadLink = "/out/d2.pdf"

\* C6: at most one request is in flight, and while isLoading is set neither
\* upload nor generate can be triggered.
C6_OneRequestInFlight ==
  /\ Len(pending) <= 1
  /\ isLoading => (~ENABLED UploadClick /\ ~ENABLED GenerateClick)

\* C6's case: a request is in flight while a file is selected and a session
\* is completely filled, so that only isLoading keeps both actions back.
C6_Witness ==
  /\ isLoading
  /\ Len(pending) = 1
  /\ file # Null
  /\ TemplateSessionExists
  /\ Len(placeholders) > 0
  /\ IsComplete

\* C7: isLoading is set exactly while a request is in flight: it is set once
\* an upload or a generate has started, and clear once the request has
\* resolved, whether it succeeded or failed.
C7_BusyWhileInFlight ==
  /\ isLoading <=> pending # <<>>
  /\ LastEvent.op \in {"uploadClick", "generateClick"} => isLoading
  /\ LastEvent.op \in {"uploadOk", "uploadFailed", "generateOk", "generateFailed"}
       => ~isLoading

\* C7's case: a request has just failed, and nothing is in flight or busy.
C7_Witness ==
  /\ LastEvent.op \in {"uploadFailed", "generateFailed"}
  /\ pending = <<>>
  /\ ~isLoading

\* C8: a download link that is present was produced by a generate request
\* that carried the current server reference and the current field values:
\* it is so when the request resolves, and no step that keeps the link
\* changes the server reference or the field values.
C8_ResultOfCurrentSession ==
  [][/\ (LastEvent'.op = "generateOk" /\ downloadLink' # "")
          => \E i \in 1..Len(pending) :
               /\ pending' = RemoveAt(pending, i)
               /\ pending[i].filePath = fileLocation'
               /\ pending[i].data = fields'
     /\ (LastEvent'.op # "generateOk" /\ downloadLink' # "")
          => (fileLocation' = fileLocation /\ fields' = fields)]_vars

TwoFields(name, amount) == <<Property("name", name), Property("amount", amount)>>
NameAmount == <<Str("name"), Str("amount")>>
After(n) == scenario = SubSeq(EndToEnd, 1, n)

\* A request in flight, before and after its response has come.
InFlight(request) == {request, [request EXCEPT !.awaits = "json"]}

\* C9: the end-to-end scenario passes through exactly the stated states:
\* after the selection, the upload click, the upload's success, the two
\* edits, the generate click, the generate's success and the download click.
C9_EndToEndScenario ==
  /\ After(0) => State(Null, <<>>, EmptyFields, "", "", FALSE, "", <<>>)
  /\ After(1) => State("invoice.pdf", <<>>, EmptyFields, "", "", FALSE, "", <<>>)
  /\ After(2) => \E r \in InFlight(UploadRequest("invoice.pdf")) :
                    State("invoice.pdf", <<>>, EmptyFields, "", "", TRUE, "", <<r>>)
  /\ After(3) => /\ State("invoice.pdf", NameAmount, TwoFields("", ""), "/tmp/t1", "",
                          FALSE, "", <<>>)
                 /\ ~ENABLED GenerateClick
  /\ After(4) => /\ State("invoice.pdf", NameAmount, TwoFields("Alice", ""), "/tmp/t1", "",
                          FALSE, "", <<>>)
                 /\ ~ENABLED GenerateClick
  /\ After(5) => /\ State("invoice.pdf", NameAmount, TwoFields("Alice", "100"), "/tmp/t1", "",
                          FALSE, "", <<>>)
                 /\ ~HasUnfilledField
                 /\ ENABLED GenerateClick
  /\ After(6) => \E r \in InFlight(GenerateRequest("/tmp/t1", TwoFields("Alice", "100"))) :
                    State("invoice.pdf", NameAmount, TwoFields("Alice", "100"), "/tmp/t1", "",
                          TRUE, "", <<r>>)
  /\ After(7) => State("invoice.pdf", NameAmount, TwoFields("Alice", "100"), "/tmp/t1",
                       "/out/d1.pdf", FALSE, "", <<>>)
  /\ After(8) => State("invoice.pdf", NameAmount, TwoFields("Alice", "100"), "/tmp/t1", "",
                       FALSE, "", <<>>)

\* C9's case: the whole scenario has run.
C9_Witness == scenario = EndToEnd /\ downloadLink = ""

\* C10: when an upload request has resolved successfully with a placeholders
\* value that is not an array, the placeholder list is empty, the field map
\* is the empty map, the server reference is stored, isLoading is clear and
\* no error is set.
C10_NonListIsEmptyList ==
  (LastEvent.op = "uploadOk" /\ LastEvent.ph \in NonArrayValues)
  => /\ placeholders = <<>>
     /\ fields = EmptyFields
     /\ fileLocation = LastEvent.s
     /\ ~isLoading
     /\ error = ""

\* C10's case: the upload has answered "not-a-list" for the placeholders.
C10_Witness ==
  /\ scenario = NotAList
  /\ State("invoice.pdf", <<>>, EmptyFields, "/tmp/t1", "", FALSE, "", <<>>)

\* The property keys of the current placeholder list.
PlaceholderKeys == {PropertyKey(placeholders[j]) : j \in 1..Len(placeholders)}

\* C11: the keys of the field map are exactly the keys of the current
\* placeholder list, in every reachable state; so an edit, which writes the
\* key of a listed placeholder, writes an existing key.
C11_KeysArePlaceholders == OwnKeys(fields) = PlaceholderKeys

\* What starts or completes an operation, or selects a file.
OperationEvents ==
  {"select", "uploadClick", "generateClick", "uploadOk", "uploadFailed",
   "generateOk", "generateFailed"}

\* C12: the error is empty after an operation succeeded and is the
\* operation's message after it failed; an error that is there either was set
\* by the failure just handled or was there before a step that neither selects
\* a file nor starts or completes an operation.
C12_ErrorOfLastFailure ==
  [][/\ LastEvent'.op \in {"uploadOk", "generateOk"} => error' = ""
     /\ LastEvent'.op = "uploadFailed" => error' = UploadErrorMessage
     /\ LastEvent'.op = "generateFailed" => error' = GenerateErrorMessage
     /\ error' # ""
          => \/ LastEvent'.op \in {"uploadFailed", "generateFailed"}
             \/ (error' = error /\ LastEvent'.op \notin OperationEvents)]_vars

\* C12's case: the message of a failed generation is still there after an edit.
C12_Witness ==
  /\ error = GenerateErrorMessage
  /\ LastEvent.op = "edit"

\* C13: when a generate request fails, the download link, the server
\* reference, the placeholder list and the field map are what they were just
\* before, and the generation error is set.
C13_GenerateFailureKeepsResult ==
  [][LastEvent'.op = "generateFailed"
     => /\ downloadLink' = downloadLink
        /\ fileLocation' = fileLocation
        /\ placeholders' = placeholders
        /\ fields' = fields
        /\ error' = GenerateErrorMessage]_vars

\* C13's case: a generation has just failed while an earlier result was
\* still there.
C13_Witness ==
  /\ LastEvent.op = "generateFailed"
  /\ downloadLink # ""

\* C14: right after a file selection, and right after a successful upload,
\* no download link is there.
C14_SelectionAndUploadDiscardResult ==
  [][LastEvent'.op \in {"select", "uploadOk"} => downloadLink' = ""]_vars

\* C15: a pick that yields a file, in any state, makes it the selected file
\* and clears the error, and changes nothing else: no request is issued, a
\* request in flight stays as it is and isLoading stays as it is.  A pick that
\* yields no file changes nothing.  (The step of a pick is the one that records
\* the selection; a step that records nothing leaves the component's state
\* cells alone.)
C15_SelectReplacesFile ==
  /\ [](~ENABLED (OnDrop(<<>>) /\ vars' # vars))
  /\ [][/\ (scenario' # scenario /\ LastEvent'.op = "select")
             => /\ file' = LastEvent'.s
                /\ error' = ""
                /\ pending' = pending
                /\ isLoading' = isLoading
                /\ UNCHANGED <<placeholders, fields, fileLocation, downloadLink>>
        /\ scenario' = scenario
             => UNCHANGED <<file, placeholders, fields, fileLocation, downloadLink,
                            isLoading, error>>]_vars

\* C15's case: while the upload of invoice.pdf was in flight, letter.pdf has
\* been selected in its place.
C15_Witness ==
  /\ LastEvent = Select("letter.pdf")
  /\ file = "letter.pdf"
  /\ isLoading
  /\ pending = <<UploadRequest("invoice.pdf")>>

\* C16: with no file selected the upload cannot be triggered, and a call of
\* uploadTemplate changes nothing: no request, isLoading, error, session,
\* field map and download link as they were.
C16_UploadWithoutFileIsNoOp ==
  file = Null => (~ENABLED UploadClick /\ ~ENABLED (UploadTemplate /\ vars' # vars))

\* C16's case: no file is selected and nothing is in flight.
C16_Witness ==
  /\ file = Null
  /\ pending = <<>>
  /\ ~isLoading

\* C17: every generate request in flight carries the current server
\* reference, which no step changes while it is in flight, and a field object
\* whose keys are exactly the keys of the current placeholder list and whose
\* values are all non-empty.
C17_GenerateRequestMatchesSession ==
  \A i \in 1..Len(pending) :
    pending[i].op = "generate"
    => /\ pending[i].filePath = fileLocation
       /\ pending[i].filePath # ""
       /\ OwnKeys(pending[i].data) = PlaceholderKeys
       /\ \A j \in 1..Len(pending[i].data) : pending[i].data[j].value # ""

\* The handler of some request in flight goes on after what it awaits.
Resolve ==
  \/ \E i \in 1..Len(pending), response \in Responses : UploadResponse(i, response)
  \/ \E i \in 1..Len(pending), response \in Responses : GenerateResponse(i, response)
  \/ \E i \in 1..Len(pending), outcome \in UploadOutcomes : UploadResolve(i, outcome)
  \/ \E i \in 1..Len(pending), outcome \in GenerateOutcomes : GenerateResolve(i, outcome)

\* C18: no failure is terminal.  After an upload failure the same file is
\* selected, nothing is busy and upload can be triggered; after a generation
\* failure the session and the field values are the same, nothing is busy and
\* generate can be triggered; a file can be selected in every state; and
\* whenever the component is busy the handler of a request can go on, in at
\* most two steps (the response, then its body) the last of which ends the
\* busy state.
C18_NoFailureIsTerminal ==
  /\ [](/\ LastEvent.op = "uploadFailed"
             => (~isLoading /\ file # Null /\ ENABLED UploadClick)
        /\ LastEvent.op = "generateFailed"
             => (~isLoading /\ TemplateSessionExists /\ ENABLED GenerateClick)
        /\ \A f \in Files : ENABLED OnDrop(<<f>>)
        /\ isLoading => ENABLED Resolve)
  /\ [][/\ LastEvent'.op = "uploadFailed" => file' = file
        /\ LastEvent'.op = "generateFailed"
             => UNCHANGED <<fileLocation, placeholders, fields>>
        /\ LastEvent'.op \in {"uploadOk", "uploadFailed", "generateOk", "generateFailed"}
             => ~isLoading'
        /\ \A i \in 1..Len(pending) :
             (pending[i].awaits = "json" /\ pending' # <<>>) => pending' = pending]_vars

\* C19: when an upload request has resolved successfully with an array that
\* holds an element that is not a string, the placeholder list is empty and
\* the field map is the empty map.
C19_NonStringListIsEmptyList ==
  (/\ LastEvent.op = "uploadOk"
   /\ LastEvent.ph.type = "array"
   /\ ~AllStrings(LastEvent.ph.items))
  => (placeholders = <<>> /\ fields = EmptyFields)

====
